---- MODULE Spec2Model ----
(***************************************************************************)
(* Model of qutip/core/data/make.py: the four one-element constructors    *)
(* (one_element_coo, one_element_csr, one_element_dense, one_element_dia), *)
(* the module-level creation and population of the two dispatchers (diag  *)
(* and one_element), and calls made through them.                          *)
(*                                                                         *)
(* Every call is a little process that runs the statements of the          *)
(* constructor one source line at a time on a shared heap of numeric       *)
(* buffers.  Arrays are functions over 0..n-1, as in the source.           *)
(***************************************************************************)
EXTENDS Integers, Sequences, FiniteSets, TLC

\* Largest number of rows / columns of a shape in Spec.
MaxDim == 3
\* Number of rows and columns of the shapes used in SpecConc.
ConcDim == 2
\* Number of concurrently running calls in SpecConc.
NCalls == 2

Reps == {"COO", "CSR", "Dense", "Dia"}

CallIds == 1..NCalls

VARIABLES
    modpc,        \* position in the module body (next line to execute)
    dispatchers,  \* name -> dispatcher object, for the dispatchers created so far
    calls,        \* call id -> activation record of the call
    heap          \* buffer id -> array, for the live buffers

vars == <<modpc, dispatchers, calls, heap>>

(***************************************************************************)
(* Scalars.  A value argument is a Python float <<"r", x>>, a Python       *)
(* complex <<"c", re, im>>, or is left out (<<"omitted">>).  The buffers   *)
(* hold complex numbers <<re, im>>.                                        *)
(***************************************************************************)
Zero == <<0, 0>>

CAdd(a, b) == <<a[1] + b[1], a[2] + b[2]>>

\* Storing a Python scalar into a dtype=complex buffer.
ToComplex(v) == IF v[1] = "r" THEN <<v[2], 0>> ELSE <<v[2], v[3]>>

\* value=1.0 in each constructor's signature.
DefaultValue(v) == IF v = <<"omitted">> THEN <<"r", 1>> ELSE v

(***************************************************************************)
(* Array primitives.                                                       *)
(***************************************************************************)
\* np.zeros(n)
Zeros(n, z) == [i \in 0..(n - 1) |-> z]

\* np.array([x])
Arr1(x) == [i \in 0..0 |-> x]

\* a[i] = x
SetItem(a, i, x) == [a EXCEPT ![i] = x]

\* a[lo:hi] = x
SliceFill(a, lo, hi, x) ==
    [i \in DOMAIN a |-> IF lo <= i /\ i < hi THEN x ELSE a[i]]

ALen(a) == Cardinality(DOMAIN a)

(***************************************************************************)
(* The heap.  Buffer ids are pairs <<c, n>>: the allocator serves call c   *)
(* from an arena of its own and hands out the lowest slot n of that arena  *)
(* that is not live.                                                       *)
(***************************************************************************)
FreshBufSharedArena(h, c) == <<1, Cardinality(DOMAIN h)>>

FreshBuf(h, c) ==
    <<c, CHOOSE n \in 0..Cardinality(DOMAIN h) :
             /\ <<c, n>> \notin DOMAIN h
             /\ \A n2 \in 0..(n - 1) : <<c, n2>> \in DOMAIN h>>

\* The heap after call c allocates a buffer holding array a.
Alloc(h, c, a) == (FreshBuf(h, c) :> a) @@ h

\* The heap without the buffers of bs.
Free(h, bs) == [b \in (DOMAIN h) \ bs |-> h[b]]

BufSet(k) == {k.bufs[n] : n \in 1..Len(k.bufs)}

(***************************************************************************)
(* Memory that csr.empty leaves uninitialised: any content.                *)
(***************************************************************************)
JunkInts == {0, 2}
JunkComplex == {Zero, <<7, 7>>}

(***************************************************************************)
(* The dispatcher object (qutip.core.data.dispatch.Dispatcher): a registry *)
(* from representation to encoder, open until its first dispatch.          *)
(***************************************************************************)
NewDispatcher(signature, name) ==
    [name |-> name, signature |-> signature,
     specialisations |-> <<>>, sealed |-> FALSE]

\* The registry after registering the (representation, encoder) pairs of
\* the list ps, later pairs overriding earlier ones.
RECURSIVE Override(_, _)
Override(specs, ps) ==
    IF ps = <<>> THEN specs
    ELSE Override((Head(ps)[1] :> Head(ps)[2]) @@ specs, Tail(ps))

AddSpecialisationsOpen(d, ps) ==
    [disp |-> [d EXCEPT !.specialisations = Override(@, ps)], err |-> "none"]

AddSpecialisations(d, ps) ==
    IF d.sealed
    THEN [disp |-> d, err |-> "LateRegistration"]
    ELSE [disp |-> [d EXCEPT !.specialisations = Override(@, ps)],
          err |-> "none"]

\* The first dispatch seals the registry.
Seal(d) == [d EXCEPT !.sealed = TRUE]

\* Selection of the encoder for a requested representation.
Lookup(d, rep) ==
    IF rep = "omitted"
    THEN [err |-> "none", enc |-> d.signature]
    ELSE IF rep \in DOMAIN d.specialisations
    THEN [err |-> "none", enc |-> d.specialisations[rep]]
    ELSE [err |-> "UnsupportedRepresentation", enc |-> "none"]

(***************************************************************************)
(* The module body.                                                        *)
(***************************************************************************)
diag_specialisations_with_coo ==
    <<<<"COO", "coo.diags">>, <<"CSR", "csr.diags">>, <<"Dia", "dia.diags">>,
      <<"Dense", "dense.diags">>>>

diag_specialisations ==
    <<<<"CSR", "csr.diags">>, <<"Dia", "dia.diags">>,
      <<"Dense", "dense.diags">>>>

one_element_signature_coo == "one_element_coo"

one_element_signature == "one_element_dense"

one_element_specialisations_swapped ==
    <<<<"COO", "one_element_coo">>, <<"CSR", "one_element_dia">>,
      <<"Dense", "one_element_dense">>, <<"Dia", "one_element_csr">>>>

one_element_specialisations ==
    <<<<"COO", "one_element_coo">>, <<"CSR", "one_element_csr">>,
      <<"Dense", "one_element_dense">>, <<"Dia", "one_element_dia">>>>

OneElementEncoders ==
    {"one_element_coo", "one_element_csr", "one_element_dense",
     "one_element_dia"}

\* The representation each constructor builds.
RepOf(enc) ==
    CASE enc = "one_element_coo" -> "COO"
      [] enc = "one_element_csr" -> "CSR"
      [] enc = "one_element_dense" -> "Dense"
      [] enc = "one_element_dia" -> "Dia"
      [] enc = "coo.diags" -> "COO"
      [] enc = "csr.diags" -> "CSR"
      [] enc = "dense.diags" -> "Dense"
      [] enc = "dia.diags" -> "Dia"

\* line 45
CreateDiag ==
    /\ modpc = "l45"
    /\ dispatchers' =
           ("diag" :> NewDispatcher("_diag_signature", "diag")) @@ dispatchers
    /\ modpc' = "l46"
    /\ UNCHANGED <<calls, heap>>

\* lines 46-53
RegisterDiag ==
    /\ modpc = "l46"
    /\ LET r == AddSpecialisations(dispatchers["diag"], diag_specialisations)
       IN /\ dispatchers' = [dispatchers EXCEPT !["diag"] = r.disp]
          /\ modpc' = IF r.err = "none" THEN "l162" ELSE "import_error"
    /\ UNCHANGED <<calls, heap>>

\* lines 162-164
CreateOneElement ==
    /\ modpc = "l162"
    /\ dispatchers' =
           ("one_element" :> NewDispatcher(one_element_signature, "one_element"))
               @@ dispatchers
    /\ modpc' = "l165"
    /\ UNCHANGED <<calls, heap>>

\* lines 165-173
RegisterOneElement ==
    /\ modpc = "l165"
    /\ LET r == AddSpecialisations(dispatchers["one_element"],
                                   one_element_specialisations)
       IN /\ dispatchers' = [dispatchers EXCEPT !["one_element"] = r.disp]
          /\ modpc' = IF r.err = "none" THEN "loaded" ELSE "import_error"
    /\ UNCHANGED <<calls, heap>>

(***************************************************************************)
(* Calls.  A call is a direct call of a constructor, a call through a      *)
(* dispatcher, or a registration made by a backend module outside this     *)
(* one.  Its record holds the arguments, the local buffers and the result. *)
(***************************************************************************)
NoResult ==
    [tag |-> "none", op |-> "none", rep |-> "none", shape |-> <<0, 0>>,
     position |-> <<0, 0>>, bufs |-> <<>>]

IdleCall ==
    [pc |-> "idle", kind |-> "none", op |-> "none", rep |-> "none",
     enc |-> "none", shape |-> <<0, 0>>, position |-> <<0, 0>>,
     value |-> <<"omitted">>, bufs |-> <<>>, mshape |-> <<0, 0>>,
     result |-> NoResult]

\* First line of each constructor.
EntryPc(enc) ==
    CASE enc = "one_element_coo" -> "l81"
      [] enc = "one_element_csr" -> "l105"
      [] enc = "one_element_dense" -> "l131"
      [] enc = "one_element_dia" -> "l154"

\* The arguments.
Shapes == (1..MaxDim) \X (1..MaxDim)
Positions == (-1..MaxDim) \X (-1..MaxDim)
ValueArgs == {<<"omitted">>, <<"r", 0>>, <<"c", 2, 1>>}

ExternalRegistrations ==
    {<<"diag", <<"COO", "coo.diags">>>>,
     <<"one_element", <<"COO", "one_element_coo">>>>}

\* one_element_X(shape, position, value)
StartDirect(c, shapes, positions, values) ==
    /\ modpc = "loaded"
    /\ calls[c].pc = "idle"
    /\ \E enc \in OneElementEncoders, sh \in shapes, pos \in positions,
          v \in values :
           calls' = [calls EXCEPT ![c] =
               [IdleCall EXCEPT !.pc = EntryPc(enc), !.kind = "direct",
                                !.enc = enc, !.shape = sh, !.position = pos,
                                !.value = DefaultValue(v)]]
    /\ UNCHANGED <<modpc, dispatchers, heap>>

\* one_element(shape, position, value, dtype=rep), or with no dtype
StartOneElement(c, shapes, positions, values, reps) ==
    /\ modpc = "loaded"
    /\ calls[c].pc = "idle"
    /\ \E rep \in reps, sh \in shapes, pos \in positions, v \in values :
           calls' = [calls EXCEPT ![c] =
               [IdleCall EXCEPT !.pc = "dispatch", !.kind = "dispatch",
                                !.op = "one_element", !.rep = rep,
                                !.shape = sh, !.position = pos, !.value = v]]
    /\ UNCHANGED <<modpc, dispatchers, heap>>

\* diag(diagonals, offsets, shape, dtype=rep)
StartDiag(c) ==
    /\ modpc = "loaded"
    /\ calls[c].pc = "idle"
    /\ \E rep \in Reps :
           calls' = [calls EXCEPT ![c] =
               [IdleCall EXCEPT !.pc = "dispatch", !.kind = "dispatch",
                                !.op = "diag", !.rep = rep]]
    /\ UNCHANGED <<modpc, dispatchers, heap>>

\* A backend module registers an encoder.
StartRegister(c) ==
    /\ modpc = "loaded"
    /\ calls[c].pc = "idle"
    /\ \E x \in ExternalRegistrations :
           calls' = [calls EXCEPT ![c] =
               [IdleCall EXCEPT !.pc = "register", !.kind = "register",
                                !.op = x[1], !.rep = x[2][1], !.enc = x[2][2]]]
    /\ UNCHANGED <<modpc, dispatchers, heap>>

Register(c) ==
    /\ calls[c].pc = "register"
    /\ LET k == calls[c]
           r == AddSpecialisations(dispatchers[k.op], <<<<k.rep, k.enc>>>>)
       IN /\ dispatchers' = [dispatchers EXCEPT ![k.op] = r.disp]
          /\ calls' = [calls EXCEPT ![c].pc = "done",
                 ![c].result = [NoResult EXCEPT
                     !.tag = IF r.err = "none" THEN "registered" ELSE r.err,
                     !.op = k.op, !.rep = k.rep]]
    /\ UNCHANGED <<modpc, heap>>

\* The dispatcher selects the encoder and hands the call over to it.
Dispatch(c) ==
    /\ calls[c].pc = "dispatch"
    /\ LET k == calls[c]
           lk == Lookup(dispatchers[k.op], k.rep)
       IN /\ dispatchers' = [dispatchers EXCEPT ![k.op] = Seal(@)]
          /\ calls' = [calls EXCEPT ![c] =
                 IF lk.err # "none"
                 THEN [k EXCEPT !.pc = "done",
                          !.result = [NoResult EXCEPT !.tag = lk.err,
                                         !.op = k.op, !.rep = k.rep]]
                 ELSE IF lk.enc \in OneElementEncoders
                 THEN [k EXCEPT !.pc = EntryPc(lk.enc), !.enc = lk.enc,
                                !.value = DefaultValue(k.value)]
                 ELSE [k EXCEPT !.pc = "backend", !.enc = lk.enc]]
    /\ UNCHANGED <<modpc, heap>>

\* csr.diags, dia.diags, dense.diags: outside this module.
DiagBackend(c) ==
    /\ calls[c].pc = "backend"
    /\ calls' = [calls EXCEPT ![c].pc = "done",
           ![c].result = [NoResult EXCEPT !.tag = "diag", !.op = "diag",
                                          !.rep = RepOf(calls[c].enc)]]
    /\ UNCHANGED <<modpc, dispatchers, heap>>

\* The caller drops the result; its buffers are collected.
Finish(c) ==
    /\ calls[c].pc = "done"
    /\ heap' = Free(heap, BufSet(calls[c]))
    /\ calls' = [calls EXCEPT ![c] = IdleCall]
    /\ UNCHANGED <<modpc, dispatchers>>

(***************************************************************************)
(* The constructors, one action per source line.                           *)
(***************************************************************************)
InBoundsInclusive(shape, position) ==
    /\ 0 <= position[1] /\ position[1] <= shape[1]
    /\ 0 <= position[2] /\ position[2] <= shape[2]

\* 0 <= position[0] < shape[0] and 0 <= position[1] < shape[1]
InBounds(shape, position) ==
    /\ 0 <= position[1] /\ position[1] < shape[1]
    /\ 0 <= position[2] /\ position[2] < shape[2]

\* raise OutOfBoundsError(shape, position)
Raise(k) ==
    [k EXCEPT !.pc = "done",
              !.result = [NoResult EXCEPT !.tag = "OutOfBoundsError",
                             !.shape = k.shape, !.position = k.position]]

\* The bounds test that opens every constructor.
CheckBounds(k, next) ==
    IF InBounds(k.shape, k.position) THEN [k EXCEPT !.pc = next] ELSE Raise(k)

\* The call record after binding a freshly allocated buffer to a local.
Bind(k, h, c, next) ==
    [k EXCEPT !.pc = next, !.bufs = Append(@, FreshBuf(h, c))]

\* return of the matrix object built on the call's buffers
Return(k, rep) ==
    [k EXCEPT !.pc = "done",
              !.result = [NoResult EXCEPT !.tag = "matrix", !.rep = rep,
                             !.shape = k.mshape, !.bufs = k.bufs]]

\* ---- one_element_coo ------------------------------------------------
Coo81(c) ==
    /\ calls[c].pc = "l81"
    /\ calls' = [calls EXCEPT ![c] = CheckBounds(@, "l84")]
    /\ UNCHANGED <<modpc, dispatchers, heap>>

Coo84(c) ==
    /\ calls[c].pc = "l84"
    /\ heap' = Alloc(heap, c, Arr1(ToComplex(calls[c].value)))
    /\ calls' = [calls EXCEPT ![c] = Bind(@, heap, c, "l85")]
    /\ UNCHANGED <<modpc, dispatchers>>

CooRowFromCol(position) == Arr1(position[2])

\* np.array([position[0]])
CooRow(position) == Arr1(position[1])

\* np.array([position[1]])
CooCol(position) == Arr1(position[2])

Coo85(c) ==
    /\ calls[c].pc = "l85"
    /\ heap' = Alloc(heap, c, CooRow(calls[c].position))
    /\ calls' = [calls EXCEPT ![c] = Bind(@, heap, c, "l86")]
    /\ UNCHANGED <<modpc, dispatchers>>

Coo86(c) ==
    /\ calls[c].pc = "l86"
    /\ heap' = Alloc(heap, c, CooCol(calls[c].position))
    /\ calls' = [calls EXCEPT ![c] = Bind(@, heap, c, "l87")]
    /\ UNCHANGED <<modpc, dispatchers>>

Coo87(c) ==
    /\ calls[c].pc = "l87"
    /\ calls' = [calls EXCEPT ![c] =
                     Return([@ EXCEPT !.mshape = calls[c].shape], "COO")]
    /\ UNCHANGED <<modpc, dispatchers, heap>>

\* ---- one_element_csr ------------------------------------------------
Csr105(c) ==
    /\ calls[c].pc = "l105"
    /\ calls' = [calls EXCEPT ![c] = CheckBounds(@, "l107")]
    /\ UNCHANGED <<modpc, dispatchers, heap>>

\* csr.empty(rows, cols, size): data[size], indices[size], indptr[rows + 1],
\* none of them initialised.
CsrEmpty(rows, cols, size) ==
    {<<d, ix, ip>> : d \in [0..(size - 1) -> JunkComplex],
                     ix \in [0..(size - 1) -> JunkInts],
                     ip \in [0..rows -> JunkInts]}

\* The same, restricted to buffers filled with one value throughout.
CsrEmptyUniform(rows, cols, size) ==
    {<<[i \in 0..(size - 1) |-> d], [i \in 0..(size - 1) |-> x],
       [i \in 0..rows |-> x]>> : d \in JunkComplex, x \in JunkInts}

\* data = csr.empty(*shape, 1); sci = data.as_scipy(full=True)
Csr107(c, uniform) ==
    /\ calls[c].pc = "l107"
    /\ \E m \in IF uniform
                THEN CsrEmptyUniform(calls[c].shape[1], calls[c].shape[2], 1)
                ELSE CsrEmpty(calls[c].shape[1], calls[c].shape[2], 1) :
           LET h1 == Alloc(heap, c, m[1])
               h2 == Alloc(h1, c, m[2])
               h3 == Alloc(h2, c, m[3])
               k1 == Bind(calls[c], heap, c, "l107")
               k2 == Bind(k1, h1, c, "l107")
               k3 == Bind(k2, h2, c, "l109")
           IN /\ heap' = h3
              /\ calls' = [calls EXCEPT ![c] =
                               [k3 EXCEPT !.mshape = calls[c].shape]]
    /\ UNCHANGED <<modpc, dispatchers>>

\* sci.data[0] = value
Csr109(c) ==
    /\ calls[c].pc = "l109"
    /\ heap' = [heap EXCEPT ![calls[c].bufs[1]] =
                    SetItem(@, 0, ToComplex(calls[c].value))]
    /\ calls' = [calls EXCEPT ![c].pc = "l110"]
    /\ UNCHANGED <<modpc, dispatchers>>

\* sci.indices[0] = position[1]
Csr110(c) ==
    /\ calls[c].pc = "l110"
    /\ heap' = [heap EXCEPT ![calls[c].bufs[2]] =
                    SetItem(@, 0, calls[c].position[2])]
    /\ calls' = [calls EXCEPT ![c].pc = "l111"]
    /\ UNCHANGED <<modpc, dispatchers>>

\* sci.indptr[: position[0] + 1] = 0
CsrIndptrLow(p, position) == SliceFill(p, 0, position[1] + 1, 0)

CsrIndptrHighLate(p, position) == SliceFill(p, position[1] + 2, ALen(p), 1)

\* sci.indptr[position[0] + 1:] = 1
CsrIndptrHigh(p, position) == SliceFill(p, position[1] + 1, ALen(p), 1)

Csr111(c) ==
    /\ calls[c].pc = "l111"
    /\ heap' = [heap EXCEPT ![calls[c].bufs[3]] =
                    CsrIndptrLow(@, calls[c].position)]
    /\ calls' = [calls EXCEPT ![c].pc = "l112"]
    /\ UNCHANGED <<modpc, dispatchers>>

Csr112(c) ==
    /\ calls[c].pc = "l112"
    /\ heap' = [heap EXCEPT ![calls[c].bufs[3]] =
                    CsrIndptrHigh(@, calls[c].position)]
    /\ calls' = [calls EXCEPT ![c].pc = "l113"]
    /\ UNCHANGED <<modpc, dispatchers>>

Csr113(c) ==
    /\ calls[c].pc = "l113"
    /\ calls' = [calls EXCEPT ![c] = Return(@, "CSR")]
    /\ UNCHANGED <<modpc, dispatchers, heap>>

\* ---- one_element_dense ----------------------------------------------
Dense131(c) ==
    /\ calls[c].pc = "l131"
    /\ calls' = [calls EXCEPT ![c] = CheckBounds(@, "l133")]
    /\ UNCHANGED <<modpc, dispatchers, heap>>

\* dense.zeros(rows, cols, fortran): rows * cols zeros.
DenseZeros(rows, cols) == Zeros(rows * cols, Zero)

\* Place of element (i, j) in the buffer of a Fortran-ordered Dense of the
\* given shape, as seen through as_ndarray().
NdIndex(shape, i, j) == i + j * shape[1]

\* data = dense.zeros(*shape, 1)
Dense133(c) ==
    /\ calls[c].pc = "l133"
    /\ heap' = Alloc(heap, c, DenseZeros(calls[c].shape[1], calls[c].shape[2]))
    /\ calls' = [calls EXCEPT ![c] =
                     [Bind(@, heap, c, "l135") EXCEPT !.mshape = calls[c].shape]]
    /\ UNCHANGED <<modpc, dispatchers>>

\* nda = data.as_ndarray(); nda[position] = value
DenseStore(a, shape, position, v) ==
    SetItem(a, NdIndex(shape, position[1], position[2]), v)

Dense135(c) ==
    /\ calls[c].pc = "l135"
    /\ heap' = [heap EXCEPT ![calls[c].bufs[1]] =
                    DenseStore(@, calls[c].mshape, calls[c].position,
                               ToComplex(calls[c].value))]
    /\ calls' = [calls EXCEPT ![c].pc = "l136"]
    /\ UNCHANGED <<modpc, dispatchers>>

Dense136(c) ==
    /\ calls[c].pc = "l136"
    /\ calls' = [calls EXCEPT ![c] = Return(@, "Dense")]
    /\ UNCHANGED <<modpc, dispatchers, heap>>

\* ---- one_element_dia ------------------------------------------------
Dia154(c) ==
    /\ calls[c].pc = "l154"
    /\ calls' = [calls EXCEPT ![c] = CheckBounds(@, "l156")]
    /\ UNCHANGED <<modpc, dispatchers, heap>>

\* np.zeros((1, shape[1]), dtype=complex)
DiaZeros(shape) == [d \in 0..0 |-> Zeros(shape[2], Zero)]

Dia156(c) ==
    /\ calls[c].pc = "l156"
    /\ heap' = Alloc(heap, c, DiaZeros(calls[c].shape))
    /\ calls' = [calls EXCEPT ![c] = Bind(@, heap, c, "l157")]
    /\ UNCHANGED <<modpc, dispatchers>>

DiaStoreBandRelative(data, position, v) ==
    [data EXCEPT ![0][IF position[2] < position[1]
                      THEN position[2] ELSE position[1]] = v]

\* data[0, position[1]] = value
DiaStore(data, position, v) == [data EXCEPT ![0][position[2]] = v]

Dia157(c) ==
    /\ calls[c].pc = "l157"
    /\ heap' = [heap EXCEPT ![calls[c].bufs[1]] =
                    DiaStore(@, calls[c].position, ToComplex(calls[c].value))]
    /\ calls' = [calls EXCEPT ![c].pc = "l158"]
    /\ UNCHANGED <<modpc, dispatchers>>

DiaOffsetsNegated(position) == Arr1(position[1] - position[2])

\* np.array([position[1] - position[0]])
DiaOffsets(position) == Arr1(position[2] - position[1])

Dia158(c) ==
    /\ calls[c].pc = "l158"
    /\ heap' = Alloc(heap, c, DiaOffsets(calls[c].position))
    /\ calls' = [calls EXCEPT ![c] = Bind(@, heap, c, "l159")]
    /\ UNCHANGED <<modpc, dispatchers>>

Dia159(c) ==
    /\ calls[c].pc = "l159"
    /\ calls' = [calls EXCEPT ![c] =
                     Return([@ EXCEPT !.mshape = calls[c].shape], "Dia")]
    /\ UNCHANGED <<modpc, dispatchers, heap>>

(***************************************************************************)
(* Specifications.                                                         *)
(***************************************************************************)
Init ==
    /\ modpc = "l45"
    /\ dispatchers = <<>>
    /\ calls = [c \in CallIds |-> IdleCall]
    /\ heap = <<>>

ModuleBody ==
    \/ CreateDiag
    \/ RegisterDiag
    \/ CreateOneElement
    \/ RegisterOneElement

Constructor(c, uniform) ==
    \/ Coo81(c) \/ Coo84(c) \/ Coo85(c) \/ Coo86(c) \/ Coo87(c)
    \/ Csr105(c) \/ Csr107(c, uniform) \/ Csr109(c) \/ Csr110(c) \/ Csr111(c)
    \/ Csr112(c) \/ Csr113(c)
    \/ Dense131(c) \/ Dense133(c) \/ Dense135(c) \/ Dense136(c)
    \/ Dia154(c) \/ Dia156(c) \/ Dia157(c) \/ Dia158(c) \/ Dia159(c)

\* One thread: every call runs to completion before the next starts.
Next ==
    \/ ModuleBody
    \/ StartDirect(1, Shapes, Positions, ValueArgs)
    \/ StartOneElement(1, Shapes, Positions, ValueArgs, Reps \cup {"omitted"})
    \/ StartDiag(1)
    \/ StartRegister(1)
    \/ Register(1)
    \/ Dispatch(1)
    \/ DiagBackend(1)
    \/ Constructor(1, FALSE)
    \/ Finish(1)

Spec == Init /\ [][Next]_vars

\* Several threads, after the registrations are complete.
ConcShapes == {<<ConcDim, ConcDim>>}
\* Call c writes in row (c - 1) % ConcDim of the last column, or asks for a
\* position outside the shape.
ConcPositions(c) == {<<(c - 1) % ConcDim, ConcDim - 1>>, <<ConcDim, 0>>}
ConcValues(c) == {<<"r", c>>}

NextConc ==
    \/ ModuleBody
    \/ \E c \in CallIds :
           \/ StartDirect(c, ConcShapes, ConcPositions(c), ConcValues(c))
           \/ StartOneElement(c, ConcShapes, ConcPositions(c),
                             ConcValues(c), {"omitted"})
           \/ Dispatch(c)
           \/ Constructor(c, TRUE)
           \/ Finish(c)

SpecConc == Init /\ [][NextConc]_vars

(***************************************************************************)
(* Reading a matrix back (the storage layouts of COO, CSR, Dense, Dia).    *)
(***************************************************************************)
RECURSIVE CSum(_, _)
\* Sum of the complex numbers f[x], x in S.
CSum(f, S) ==
    IF S = {} THEN Zero
    ELSE LET x == CHOOSE y \in S : TRUE
         IN CAdd(f[x], CSum(f, S \ {x}))

\* Stored triplets with equal (row, col) are summed.
CooEntry(a, i, j) ==
    LET hit == {n \in DOMAIN a[1] : a[2][n] = i /\ a[3][n] = j}
    IN CSum(a[1], hit)

\* Row i is the slice indptr[i] .. indptr[i+1] - 1 of data and indices.
CsrEntry(a, i, j) ==
    LET hit == {n \in DOMAIN a[1] :
                   a[3][i] <= n /\ n < a[3][i + 1] /\ a[2][n] = j}
    IN CSum(a[1], hit)

\* Row-major or column-major buffer, read through the ndarray view.
DenseEntry(a, shape, i, j) == a[1][NdIndex(shape, i, j)]

\* Diagonal d with offset o holds cell (i, i + o) at buffer column i + o.
DiaEntry(a, i, j) ==
    LET hit == {d \in DOMAIN a[2] : a[2][d] = j - i}
    IN CSum([d \in hit |-> a[1][d][j]], hit)

\* The arrays a result is built on, as they are now.
Arrays(r) ==
    [n \in 1..Len(r.bufs) |->
        IF r.bufs[n] \in DOMAIN heap THEN heap[r.bufs[n]] ELSE <<>>]

Entry(r, i, j) ==
    CASE r.rep = "COO" -> CooEntry(Arrays(r), i, j)
      [] r.rep = "CSR" -> CsrEntry(Arrays(r), i, j)
      [] r.rep = "Dense" -> DenseEntry(Arrays(r), r.shape, i, j)
      [] r.rep = "Dia" -> DiaEntry(Arrays(r), i, j)

(***************************************************************************)
(* Vocabulary of the properties.                                           *)
(***************************************************************************)
Valid(shape, position) ==
    /\ position[1] \in 0..(shape[1] - 1)
    /\ position[2] \in 0..(shape[2] - 1)

\* The constructor named one_element_X for representation X.
EncoderFor(rep) ==
    CASE rep = "COO" -> "one_element_coo"
      [] rep = "CSR" -> "one_element_csr"
      [] rep = "Dense" -> "one_element_dense"
      [] rep = "Dia" -> "one_element_dia"

\* A call that has entered a one-element constructor.
InConstructor(k) ==
    /\ k.kind \in {"direct", "dispatch"}
    /\ k.enc \in OneElementEncoders

Returned(k) == InConstructor(k) /\ k.pc = "done" /\ k.result.tag = "matrix"

\* Live buffers of the arena of call c.
Live(c) == {b \in DOMAIN heap : b[1] = c}

\* What a call has produced: its kind of result and the arrays behind it.
Outcome(k) ==
    [tag |-> k.result.tag, op |-> k.result.op, rep |-> k.result.rep,
     shape |-> k.result.shape, position |-> k.result.position,
     arrays |-> Arrays(k.result)]

\* The row-pointer array of a one-entry matrix with rows rows.
OnePtr(rows, row) == [i \in 0..rows |-> IF i <= row THEN 0 ELSE 1]

\* What one_element_X(shape, position, v) produces when it runs alone.
DirectOutcome(enc, shape, position, v) ==
    IF ~Valid(shape, position)
    THEN [tag |-> "OutOfBoundsError", op |-> "none", rep |-> "none",
          shape |-> shape, position |-> position, arrays |-> <<>>]
    ELSE [tag |-> "matrix", op |-> "none", rep |-> RepOf(enc),
          shape |-> shape, position |-> <<0, 0>>,
          arrays |->
            CASE enc = "one_element_coo" ->
                   <<Arr1(ToComplex(v)), Arr1(position[1]), Arr1(position[2])>>
              [] enc = "one_element_csr" ->
                   <<Arr1(ToComplex(v)), Arr1(position[2]),
                     OnePtr(shape[1], position[1])>>
              [] enc = "one_element_dense" ->
                   <<[n \in 0..(shape[1] * shape[2] - 1) |->
                        IF n = position[1] + position[2] * shape[1]
                        THEN ToComplex(v) ELSE Zero]>>
              [] enc = "one_element_dia" ->
                   <<[d \in 0..0 |-> [j \in 0..(shape[2] - 1) |->
                        IF j = position[2] THEN ToComplex(v) ELSE Zero]],
                     Arr1(position[2] - position[1])>>]

\* A direct call that is over has produced what DirectOutcome says.
DirectCallsAgree ==
    \A c \in CallIds :
        LET k == calls[c]
        IN (k.kind = "direct" /\ k.pc = "done") =>
               Outcome(k) = DirectOutcome(k.enc, k.shape, k.position, k.value)

(***************************************************************************)
(* C1.  For every shape, every position inside it and every value, each of *)
(* the four constructors returns a matrix of that shape, in its own        *)
(* representation, whose entry at the position reads back as the value and *)
(* whose every other entry reads back as zero.                             *)
(***************************************************************************)
C1_OneElementReadsBack ==
    \A c \in CallIds :
        LET k == calls[c]
        IN (k.kind = "direct" /\ k.pc = "done" /\ Valid(k.shape, k.position)) =>
               /\ k.result.tag = "matrix"
               /\ k.result.rep = RepOf(k.enc)
               /\ k.result.shape = k.shape
               /\ \A i \in 0..(k.shape[1] - 1), j \in 0..(k.shape[2] - 1) :
                      Entry(k.result, i, j) =
                          IF <<i, j>> = k.position
                          THEN ToComplex(k.value) ELSE Zero

C1_Witness ==
    LET k == calls[1]
    IN /\ Returned(k) /\ k.kind = "direct"
       /\ k.enc = "one_element_csr"
       /\ k.shape = <<3, 2>> /\ k.position = <<2, 0>>
       /\ k.value = <<"c", 2, 1>>
       /\ Entry(k.result, 2, 0) = <<2, 1>>
       /\ Entry(k.result, 0, 1) = Zero

(***************************************************************************)
(* C2.  For a position outside the shape (negative, or row = R, or         *)
(* col = C) every constructor fails with OutOfBoundsError carrying that    *)
(* shape and position; the test is the constructor's first step, before    *)
(* any buffer exists, and the failing call allocates and returns nothing.  *)
(***************************************************************************)
C2_OutOfBoundsRejected ==
    \A c \in CallIds :
        LET k == calls[c]
        IN InConstructor(k) =>
               /\ k.pc = EntryPc(k.enc) => (k.bufs = <<>> /\ Live(c) = {})
               /\ ~Valid(k.shape, k.position) =>
                      /\ k.pc \in {EntryPc(k.enc), "done"}
                      /\ k.bufs = <<>>
                      /\ Live(c) = {}
                      /\ k.pc = "done" =>
                             k.result =
                                 [NoResult EXCEPT
                                     !.tag = "OutOfBoundsError",
                                     !.shape = k.shape,
                                     !.position = k.position]

C2_Witness ==
    LET k == calls[1]
    IN /\ k.kind = "direct" /\ k.enc = "one_element_dense"
       /\ k.shape = <<2, 2>> /\ k.position = <<2, 0>>
       /\ k.pc = "done"
       /\ k.result.tag = "OutOfBoundsError"
       /\ heap = <<>>

(***************************************************************************)
(* C3.  one_element(shape, position, value, dtype=X) runs exactly the      *)
(* constructor registered for X, one_element_X, and ends as the direct     *)
(* call one_element_X(shape, position, value) ends: the same matrix or the *)
(* same OutOfBoundsError.  The dispatcher validates and computes nothing:  *)
(* the call enters the constructor with its arguments untouched, no buffer *)
(* and no result, whatever the position.                                   *)
(***************************************************************************)
C3_DispatchEqualsDirect ==
    /\ DirectCallsAgree
    /\ \A c \in CallIds :
           LET k == calls[c]
           IN (k.kind = "dispatch" /\ k.op = "one_element" /\ k.rep \in Reps
                   /\ k.pc # "dispatch") =>
                  /\ k.enc = EncoderFor(k.rep)
                  /\ k.pc = EntryPc(k.enc) =>
                         (k.bufs = <<>> /\ k.result = NoResult /\ Live(c) = {})
                  /\ k.pc = "done" =>
                         Outcome(k) = DirectOutcome(EncoderFor(k.rep), k.shape,
                                                    k.position, k.value)

C3_Witness ==
    LET k == calls[1]
    IN /\ k.kind = "dispatch" /\ k.op = "one_element" /\ k.rep = "Dia"
       /\ k.shape = <<2, 3>> /\ k.position = <<0, 2>>
       /\ Returned(k)
       /\ k.result.rep = "Dia"
       /\ Arrays(k.result)[2] = Arr1(2)

(***************************************************************************)
(* C4.  one_element(shape, position, value) with no representation given   *)
(* ends as one_element_dense(shape, position, value) ends: a Dense matrix  *)
(* with the same entries, or the same OutOfBoundsError.                    *)
(***************************************************************************)
C4_DefaultIsDense ==
    \A c \in CallIds :
        LET k == calls[c]
        IN /\ (k.kind = "direct" /\ k.enc = "one_element_dense"
                   /\ k.pc = "done") =>
                  Outcome(k) = DirectOutcome("one_element_dense", k.shape,
                                             k.position, k.value)
           /\ (k.kind = "dispatch" /\ k.op = "one_element"
                   /\ k.rep = "omitted" /\ k.pc # "dispatch") =>
                  /\ k.enc = "one_element_dense"
                  /\ k.pc = "done" =>
                         Outcome(k) = DirectOutcome("one_element_dense",
                                          k.shape, k.position, k.value)

C4_Witness ==
    LET k == calls[1]
    IN /\ k.kind = "dispatch" /\ k.op = "one_element" /\ k.rep = "omitted"
       /\ k.shape = <<3, 2>> /\ k.position = <<1, 1>>
       /\ Returned(k)
       /\ k.result.rep = "Dense"
       /\ Entry(k.result, 1, 1) = <<1, 0>>

(***************************************************************************)
(* C5.  For diag and for one_element alike, a dispatch to a representation *)
(* with no registered encoder fails with UnsupportedRepresentation naming  *)
(* the operation and the representation, and builds nothing; a dispatch to *)
(* a registered one does not fail so.  As this module leaves them, diag    *)
(* has encoders for CSR, Dia and Dense only (not COO) and one_element for  *)
(* all four.                                                               *)
(***************************************************************************)
C5_UnregisteredRepresentationFails ==
    /\ modpc \in {"l162", "l165"} =>
           DOMAIN dispatchers["diag"].specialisations = {"CSR", "Dia", "Dense"}
    /\ modpc = "loaded" =>
           /\ DOMAIN dispatchers["one_element"].specialisations = Reps
           /\ {"CSR", "Dia", "Dense"} \subseteq
                  DOMAIN dispatchers["diag"].specialisations
    /\ \A c \in CallIds :
           LET k == calls[c]
               unregistered ==
                   /\ k.rep # "omitted"
                   /\ k.rep \notin DOMAIN dispatchers[k.op].specialisations
           IN (k.kind = "dispatch" /\ k.pc # "dispatch") =>
                  IF unregistered
                  THEN /\ k.pc = "done"
                       /\ k.result =
                              [NoResult EXCEPT
                                  !.tag = "UnsupportedRepresentation",
                                  !.op = k.op, !.rep = k.rep]
                       /\ k.bufs = <<>>
                       /\ Live(c) = {}
                  ELSE k.result.tag # "UnsupportedRepresentation"

C5_Witness ==
    LET k == calls[1]
    IN /\ k.kind = "dispatch" /\ k.op = "diag" /\ k.rep = "COO"
       /\ k.pc = "done"
       /\ k.result.tag = "UnsupportedRepresentation"
       /\ k.result.op = "diag" /\ k.result.rep = "COO"
       /\ "COO" \notin DOMAIN dispatchers["diag"].specialisations

(***************************************************************************)
(* C6.  For a valid shape (R, C) and position (row, col), one_element_csr  *)
(* stores exactly one entry (values = [value], column indices = [col]) and *)
(* a row-pointer array p of length R + 1 with p[i] = 0 for i <= row and    *)
(* p[i] = 1 for i > row: p is non-decreasing, p[0] = 0, p[R] = 1 = the     *)
(* number of stored entries, and p[i] # p[i+1] exactly for i = row.        *)
(***************************************************************************)
C6_CsrRowPointers ==
    \A c \in CallIds :
        LET k == calls[c]
            a == Arrays(k.result)
            R == k.shape[1]
            row == k.position[1]
        IN (Returned(k) /\ k.enc = "one_element_csr") =>
               /\ Len(a) = 3
               /\ a[1] = Arr1(ToComplex(k.value))
               /\ a[2] = Arr1(k.position[2])
               /\ DOMAIN a[3] = 0..R
               /\ \A i \in 0..R : a[3][i] = IF i <= row THEN 0 ELSE 1
               /\ \A i \in 0..(R - 1) : a[3][i] <= a[3][i + 1]
               /\ a[3][0] = 0
               /\ a[3][R] = 1
               /\ a[3][R] = ALen(a[1])
               /\ \A i \in 0..(R - 1) : (a[3][i] # a[3][i + 1]) <=> (i = row)

C6_Witness ==
    LET k == calls[1]
    IN /\ Returned(k) /\ k.enc = "one_element_csr"
       /\ k.shape = <<3, 3>> /\ k.position = <<2, 1>>
       /\ Arrays(k.result)[3] = [i \in 0..3 |-> IF i = 3 THEN 1 ELSE 0]

(***************************************************************************)
(* C7.  For a valid shape (R, C) and position (row, col), one_element_dia  *)
(* returns a diagonal buffer of shape (1, C) and the offsets array         *)
(* [col - row]; the buffer holds the value at column col and zero in every *)
(* other column, and the matrix read at (row, col) through that diagonal   *)
(* is the value.                                                           *)
(***************************************************************************)
C7_DiaBufferAndOffset ==
    \A c \in CallIds :
        LET k == calls[c]
            a == Arrays(k.result)
            C == k.shape[2]
        IN (Returned(k) /\ k.enc = "one_element_dia") =>
               /\ Len(a) = 2
               /\ DOMAIN a[1] = 0..0
               /\ DOMAIN a[1][0] = 0..(C - 1)
               /\ a[2] = Arr1(k.position[2] - k.position[1])
               /\ \A j \in 0..(C - 1) :
                      a[1][0][j] = IF j = k.position[2]
                                   THEN ToComplex(k.value) ELSE Zero
               /\ DiaEntry(a, k.position[1], k.position[2]) =
                      ToComplex(k.value)

C7_Witness ==
    LET k == calls[1]
    IN /\ Returned(k) /\ k.enc = "one_element_dia"
       /\ k.shape = <<3, 3>> /\ k.position = <<0, 2>>
       /\ Arrays(k.result)[2] = Arr1(2)
       /\ Arrays(k.result)[1][0][2] = <<1, 0>>

Max2(a, b) == IF a >= b THEN a ELSE b
Min2(a, b) == IF a <= b THEN a ELSE b

(***************************************************************************)
(* C10.  For a valid shape (R, C) and position (row, col), the offset      *)
(* o = col - row of one_element_dia satisfies -R < o < C, and the buffer   *)
(* column col that holds the value lies in the diagonal's valid range,     *)
(* max(0, o) <= col < min(C, R + o): no padding cell is non-zero.          *)
(***************************************************************************)
C10_DiaValueNotInPadding ==
    \A c \in CallIds :
        LET k == calls[c]
            a == Arrays(k.result)
            R == k.shape[1]
            C == k.shape[2]
            col == k.position[2]
            o == a[2][0]
        IN (Returned(k) /\ k.enc = "one_element_dia") =>
               /\ -R < o /\ o < C
               /\ Max2(0, o) <= col /\ col < Min2(C, R + o)
               /\ \A j \in DOMAIN a[1][0] :
                      ~(Max2(0, o) <= j /\ j < Min2(C, R + o)) =>
                          a[1][0][j] = Zero

C10_Witness ==
    LET k == calls[1]
    IN /\ Returned(k) /\ k.enc = "one_element_dia"
       /\ k.shape = <<3, 2>> /\ k.position = <<2, 0>>
       /\ k.value = <<"c", 2, 1>>
       /\ Arrays(k.result)[2] = Arr1(-2)
       /\ Arrays(k.result)[1][0] = [j \in 0..1 |-> IF j = 0 THEN <<2, 1>> ELSE Zero]

\* What holds of the calls and the heap at every moment of a concurrent run.
C8_StateInv ==
    /\ \A c1, c2 \in CallIds :
           c1 # c2 => BufSet(calls[c1]) \cap BufSet(calls[c2]) = {}
    /\ \A c \in CallIds : Cardinality(BufSet(calls[c])) = Len(calls[c].bufs)
    /\ DOMAIN heap = UNION {BufSet(calls[c]) : c \in CallIds}
    /\ \A c \in CallIds :
           LET k == calls[c]
           IN (InConstructor(k) /\ k.pc = "done") =>
                  Outcome(k) = DirectOutcome(k.enc, k.shape, k.position, k.value)

\* A step leaves the buffers of every call that does not take it as they
\* are, and leaves the registries' mappings as they are.
C8_StepInv ==
    /\ \A c \in CallIds :
           calls'[c] = calls[c] =>
               \A b \in BufSet(calls[c]) :
                   /\ b \in DOMAIN heap'
                   /\ \A c2 \in CallIds \ {c} : b \notin BufSet(calls'[c2])
                   /\ heap'[b] = heap[b]
    /\ modpc = "loaded" =>
           \A op \in DOMAIN dispatchers :
               dispatchers'[op].specialisations =
                   dispatchers[op].specialisations

(***************************************************************************)
(* C8.  Constructor calls running concurrently, their steps interleaved    *)
(* in any order, each end exactly as the same call ends alone: the live    *)
(* buffers of a call are distinct from each other and from those of every  *)
(* other call, every step changes only buffers of the call that takes it,  *)
(* and no call changes the registries' mappings.                           *)
(***************************************************************************)
C8_ConcurrentCallsIndependent == [](C8_StateInv) /\ [][C8_StepInv]_vars

C8_Witness ==
    /\ Returned(calls[1]) /\ calls[1].enc = "one_element_csr"
    /\ calls[1].position = <<0, ConcDim - 1>>
    /\ calls[2].enc = "one_element_dia" /\ calls[2].pc = "l158"
    /\ calls[2].position = <<1, ConcDim - 1>>
    /\ calls[2].kind = "direct"
    /\ Cardinality(DOMAIN heap) = 4

\* What holds of the module body, the registries and the calls at every moment.
C9_StateInv ==
    /\ modpc # "import_error"
    /\ modpc # "loaded" =>
           /\ \A op \in DOMAIN dispatchers : ~dispatchers[op].sealed
           /\ \A c \in CallIds : calls[c].pc = "idle"
    /\ \A c \in CallIds :
           LET k == calls[c]
           IN /\ (k.kind = "dispatch" /\ k.pc # "dispatch") =>
                      dispatchers[k.op].sealed
              /\ (k.kind = "register" /\ k.pc = "done") =>
                      k.result.tag \in {"registered", "LateRegistration"}

\* What holds of every step: creation, sealing and registration.
C9_StepInv ==
    /\ \A op \in (DOMAIN dispatchers') \ (DOMAIN dispatchers) :
           /\ ~dispatchers'[op].sealed
           /\ dispatchers'[op].specialisations = <<>>
    /\ \A op \in DOMAIN dispatchers :
           /\ dispatchers[op].sealed => dispatchers'[op] = dispatchers[op]
           /\ (~dispatchers[op].sealed /\ dispatchers'[op].sealed) =>
                  \E c \in CallIds :
                      /\ calls[c].pc = "dispatch" /\ calls[c].op = op
                      /\ calls'[c].pc # "dispatch"
    /\ \A c \in CallIds :
           (calls[c].pc = "register" /\ calls'[c].pc = "done") =>
               LET op == calls[c].op
               IN IF dispatchers[op].sealed
                  THEN /\ calls'[c].result.tag = "LateRegistration"
                       /\ dispatchers'[op] = dispatchers[op]
                  ELSE /\ calls'[c].result.tag = "registered"
                       /\ calls[c].rep \in
                              DOMAIN dispatchers'[op].specialisations

(***************************************************************************)
(* C9.  Each dispatcher's registry starts open and is sealed by the first  *)
(* dispatch of its operation; a sealed registry never opens again; this    *)
(* module's own registrations of the diag and one_element encoders all     *)
(* happen before any dispatch; a registration attempted on a sealed        *)
(* registry fails with LateRegistration and leaves its mapping unchanged.  *)
(***************************************************************************)
C9_RegistrySealsOnce == [](C9_StateInv) /\ [][C9_StepInv]_vars

C9_Witness ==
    LET k == calls[1]
    IN /\ k.kind = "register" /\ k.op = "diag" /\ k.rep = "COO"
       /\ k.pc = "done"
       /\ k.result.tag = "LateRegistration"
       /\ dispatchers["diag"].sealed
       /\ "COO" \notin DOMAIN dispatchers["diag"].specialisations

====
